---- MODULE Spec2Model ----
(***************************************************************************)
(* PolicyReady frontend: the streaming decoder (lib/api.ts analyzeStream), *)
(* the job controller (app/page.tsx Home) and the history store            *)
(* (lib/history.ts), as state machines over one set of variables.          *)
(*                                                                         *)
(*   SpecDecoder  bytes -> events, at byte/character level                 *)
(*   SpecHistory  saveToHistory / getHistory on localStorage               *)
(*   SpecTabs     saveToHistory calls of several tabs on one localStorage  *)
(*   Spec         the job controller, consuming events and writing history *)
(*   SpecJob      the job controller in a session with one file            *)
(*   SpecPipe     one job whose events come from the decoder               *)
(***************************************************************************)
EXTENDS Integers, Sequences, FiniteSets, TLC

VARIABLES
  \* ---- decoder (analyzeStream) ----
  sent,        \* ghost: every byte the server writes on this response
  wire,        \* bytes not yet handed out by reader.read()
  pending,     \* TextDecoder's held-back incomplete multi-byte sequence
  buffer,      \* `buffer`: characters after the last newline seen
  yielded,     \* events yielded so far, in order
  dpc,         \* "open" while the read loop runs, "done" after done=true
  midSplit,    \* ghost: some chunk ended inside a record
  batch,       \* lines of the current chunk the for-loop has not reached yet
  \* ---- history store (localStorage + crypto.randomUUID + Date) ----
  storage,     \* the value under HISTORY_KEY
  nextId,      \* source of fresh ids (crypto.randomUUID)
  clock,       \* source of timestamps (new Date())
  lastOp,      \* ghost: the last store operation and its outcome
  log,         \* ghost: the entries returned by saveToHistory, oldest first
  clean,       \* ghost: no storage fault and no foreign content so far
  writers,     \* the saveToHistory calls of the tabs sharing the storage
  \* ---- job controller (Home component state) ----
  activeTab, analysisState, phase, questions, answers, progress, error,
  currentFilename,
  jobs,        \* one record per handleFileSelect invocation (its closure)
  shown,       \* ghost: where the displayed questions and answers came from
  trace        \* ghost: the last event applied, and the invocation it came from

decoderVars == <<sent, wire, pending, buffer, yielded, dpc, midSplit, batch>>
storeVars   == <<storage, nextId, clock, lastOp, log, clean, writers>>
uiVars      == <<activeTab, analysisState, phase, questions, answers, progress,
                 error, currentFilename, shown>>
homeVars    == <<activeTab, analysisState, phase, questions, answers, progress,
                 error, currentFilename, jobs, shown, trace>>
vars        == <<sent, wire, pending, buffer, yielded, dpc, midSplit, batch,
                 storage, nextId, clock, lastOp, log, clean, writers,
                 activeTab, analysisState, phase, questions, answers, progress,
                 error, currentFilename, jobs, shown, trace>>

(***************************************************************************)
(* Generic helpers                                                         *)
(***************************************************************************)
Min(a, b) == IF a < b THEN a ELSE b

Take(s, n) == SubSeq(s, 1, Min(n, Len(s)))

Drop(s, n) == SubSeq(s, n + 1, Len(s))

RECURSIVE Reverse(_)
Reverse(s) == IF s = <<>> THEN <<>> ELSE Append(Reverse(Tail(s)), Head(s))

RECURSIVE Flatten(_)
Flatten(ss) == IF ss = <<>> THEN <<>> ELSE Head(ss) \o Flatten(Tail(ss))

RECURSIVE SeqsUpTo(_, _)
SeqsUpTo(S, n) ==
  IF n = 0 THEN {<<>>}
  ELSE LET shorter == SeqsUpTo(S, n - 1)
       IN  shorter \cup {Append(s, x) : s \in shorter, x \in S}

(***************************************************************************)
(* DECODER: analyzeStream's read loop                                      *)
(***************************************************************************)
LF    == "\n"
Quote == "\""
Digits == {"0", "1", "2", "3", "4", "5", "6", "7", "8", "9"}

\* const decoder = new TextDecoder(); decoder.decode(value, {stream: true}):
\* UTF-8 bytes to characters, an incomplete trailing sequence is held back.
\* One two-byte character is modelled: C3 A9 = e-acute.
RECURSIVE UTF8Decode(_)
UTF8Decode(bytes) ==
  IF bytes = <<>> THEN [out |-> <<>>, pend |-> <<>>]
  ELSE IF Head(bytes) = "C3" THEN
         IF Len(bytes) = 1 THEN [out |-> <<>>, pend |-> <<"C3">>]
         ELSE IF bytes[2] = "A9"
              THEN LET r == UTF8Decode(Drop(bytes, 2))
                   IN  [out |-> <<"e'">> \o r.out, pend |-> r.pend]
              ELSE LET r == UTF8Decode(Drop(bytes, 1))
                   IN  [out |-> <<"FFFD">> \o r.out, pend |-> r.pend]
  ELSE IF Head(bytes) = "A9" THEN
         LET r == UTF8Decode(Tail(bytes))
         IN  [out |-> <<"FFFD">> \o r.out, pend |-> r.pend]
  ELSE LET r == UTF8Decode(Tail(bytes))
       IN  [out |-> <<Head(bytes)>> \o r.out, pend |-> r.pend]

\* buffer.split("\n"): always at least one element, the last one being the
\* text after the final newline.
RECURSIVE Split(_)
Split(s) ==
  IF \A i \in 1..Len(s) : s[i] # LF THEN <<s>>
  ELSE LET k == CHOOSE i \in 1..Len(s) :
                  s[i] = LF /\ \A j \in 1..(i - 1) : s[j] # LF
       IN  <<SubSeq(s, 1, k - 1)>> \o Split(Drop(s, k))

DataPrefix == <<"d", "a", "t", "a", ":", " ">>

\* line.startsWith("data: ")
StartsWithData(line) ==
  Len(line) >= Len(DataPrefix) /\ SubSeq(line, 1, Len(DataPrefix)) = DataPrefix

\* line.slice(6)
Slice6(line) == Drop(line, 6)

RECURSIVE DecimalValue(_)
DecimalValue(ds) ==
  IF ds = <<>> THEN 0
  ELSE 10 * DecimalValue(SubSeq(ds, 1, Len(ds) - 1))
       + (CHOOSE v \in 0..9 : ToString(v) = ds[Len(ds)])

\* JSON.parse on the payload grammar the model sends: an unsigned integer
\* without leading zero, a double-quoted string without escapes, or the text
\* of an event object, which is carried as one token. Anything else is a
\* SyntaxError.
ObjectTokens == {"{status}", "{complete}"}

IsJSONObject(t) == Len(t) = 1 /\ t[1] \in ObjectTokens

IsJSONNumber(t) ==
  /\ Len(t) >= 1
  /\ \A i \in 1..Len(t) : t[i] \in Digits
  /\ (Len(t) > 1 => t[1] # "0")

IsJSONString(t) ==
  /\ Len(t) >= 2
  /\ t[1] = Quote /\ t[Len(t)] = Quote
  /\ \A i \in 2..(Len(t) - 1) : t[i] \notin {Quote, "\\", LF}

JSONParseThrows(t) == ~(IsJSONNumber(t) \/ IsJSONString(t) \/ IsJSONObject(t))

JSONParseText(t) ==
  IF IsJSONNumber(t) THEN [type |-> "number", value |-> DecimalValue(t)]
  ELSE IF IsJSONObject(t) THEN [type |-> "object", value |-> t[1]]
  ELSE [type |-> "string", value |-> SubSeq(t, 2, Len(t) - 1)]

\* Mutant of YieldLines: a line that fails to parse ends the loop over the
\* lines of the chunk.
RECURSIVE YieldLinesAbort(_)
YieldLinesAbort(lines) ==
  IF lines = <<>> THEN <<>>
  ELSE LET line == Head(lines)
       IN  IF StartsWithData(line) /\ JSONParseThrows(Slice6(line))
             THEN <<>>
           ELSE (IF StartsWithData(line)
                   THEN <<JSONParseText(Slice6(line))>>
                   ELSE <<>>) \o YieldLinesAbort(Tail(lines))

\* for (const line of lines) { if startsWith: try { yield JSON.parse } catch {} }
RECURSIVE YieldLines(_)
YieldLines(lines) ==
  IF lines = <<>> THEN <<>>
  ELSE LET line == Head(lines)
           here == IF StartsWithData(line) /\ ~JSONParseThrows(Slice6(line))
                   THEN <<JSONParseText(Slice6(line))>>
                   ELSE <<>>
       IN  here \o YieldLines(Tail(lines))

\* The mutant: the trailing fragment is dropped instead of carried over.
KeepTailDropped(lines) == <<>>

\* buffer = lines.pop() || ""
KeepTail(lines) == lines[Len(lines)]

\* One iteration of the while loop on a chunk `value`, from decoder state
\* (pend, buf): returns the new state and the events yielded.
ProcessChunk(pend, buf, value) ==
  LET dec   == UTF8Decode(pend \o value)
      text  == buf \o dec.out
      lines == Split(text)
  IN  [pend   |-> dec.pend,
       buf    |-> KeepTail(lines),
       events |-> YieldLines(SubSeq(lines, 1, Len(lines) - 1))]

\* ---- the byte streams the model sends ----
MaxRecords == 2

RecNumber    == DataPrefix \o <<"4", "2", LF>>
RecString    == DataPrefix \o <<Quote, "C3", "A9", Quote, LF>>
RecBlank     == <<LF>>
RecMalformed == DataPrefix \o <<"{", LF>>
Records      == {RecNumber, RecString, RecBlank, RecMalformed}
TailFragment == DataPrefix \o <<"7">>

Streams ==
  {Flatten(rs) \o tl : rs \in SeqsUpTo(Records, MaxRecords),
                       tl \in {<<>>, TailFragment}}

DecoderIdle ==
  /\ sent = <<>> /\ wire = <<>> /\ pending = <<>> /\ buffer = <<>>
  /\ yielded = <<>> /\ dpc = "done" /\ midSplit = FALSE /\ batch = <<>>

InitDecoder ==
  /\ sent \in Streams
  /\ wire = sent
  /\ pending = <<>>
  /\ buffer = <<>>
  /\ yielded = <<>>
  /\ dpc = "open"
  /\ midSplit = FALSE
  /\ batch = <<>>

\* const {done, value} = await reader.read() with done = false, value = the
\* next n bytes; then the loop body.
ReadChunk(n) ==
  /\ dpc = "open"
  /\ n \in 1..Len(wire)
  /\ LET r == ProcessChunk(pending, buffer, Take(wire, n))
     IN  /\ pending' = r.pend
         /\ buffer' = r.buf
         /\ yielded' = yielded \o r.events
         /\ midSplit' = (midSplit \/ (n < Len(wire)
                                       /\ (r.buf # <<>> \/ r.pend # <<>>)))
  /\ wire' = Drop(wire, n)
  /\ UNCHANGED <<sent, dpc, batch>>
  /\ UNCHANGED storeVars
  /\ UNCHANGED homeVars

\* Mutant of ReadDone: what is left in the buffer is handled as a last line.
ReadDoneFlushes ==
  /\ dpc = "open"
  /\ wire = <<>>
  /\ dpc' = "done"
  /\ yielded' = yielded \o YieldLines(<<buffer>>)
  /\ buffer' = <<>>
  /\ UNCHANGED <<sent, wire, pending, midSplit, batch>>
  /\ UNCHANGED storeVars
  /\ UNCHANGED homeVars

\* reader.read() reports done: break, the generator returns.
ReadDone ==
  /\ dpc = "open"
  /\ wire = <<>>
  /\ dpc' = "done"
  /\ UNCHANGED <<sent, wire, pending, buffer, yielded, midSplit, batch>>
  /\ UNCHANGED storeVars
  /\ UNCHANGED homeVars

(***************************************************************************)
(* HISTORY STORE: lib/history.ts over window.localStorage                  *)
(***************************************************************************)
MAX_HISTORY_ITEMS == 50

\* const trimmed = updated.slice(0, 10)
TrimmedSize == 10

\* The value under HISTORY_KEY. kind is
\*   "absent"   getItem returns null (never written, or removed)
\*   "garbage"  text JSON.parse rejects
\*   "object"   text JSON.parse accepts, whose value is not iterable and has
\*              no array methods (such as {} or 7)
\*   "array"    the JSON text of the array `value`
Absent     == [kind |-> "absent", value |-> <<>>]
Garbage    == [kind |-> "garbage", value |-> <<>>]
JSONObject == [kind |-> "object", value |-> <<>>]

\* JSON.stringify(array of entries): the model's entries hold only strings,
\* finite integers, arrays and plain objects, which JSON text represents
\* exactly; the text is kept as the value it denotes.
JSONStringify(v) == [kind |-> "array", value |-> v]

\* JSON.parse(stored) throws
StoredParseThrows(st) == st.kind = "garbage"

\* getHistory(): null (or "") gives [], a parse error gives [], and anything
\* else is returned as parsed. For kind "object" the caller receives a value
\* that is not an array; IsArrayValue tells the two apart.
getHistory(st) ==
  IF st.kind = "absent" THEN <<>>
  ELSE IF StoredParseThrows(st) THEN <<>>
  ELSE st.value

IsArrayValue(st) == st.kind # "object"

\* { ...item, id: crypto.randomUUID(), timestamp: new Date().toISOString() }
NewItem(item, id, ts) ==
  [id             |-> id,
   timestamp      |-> ts,
   filename       |-> item.filename,
   totalQuestions |-> item.totalQuestions,
   met            |-> item.met,
   notMet         |-> item.notMet,
   partial        |-> item.partial,
   questions      |-> item.questions,
   answers        |-> item.answers]

\* Mutant of Updated: one entry too many kept.
UpdatedOffByOne(newItem, history) ==
  Take(<<newItem>> \o history, MAX_HISTORY_ITEMS + 1)

\* const updated = [newItem, ...history].slice(0, MAX_HISTORY_ITEMS)
Updated(newItem, history) == Take(<<newItem>> \o history, MAX_HISTORY_ITEMS)

\* Mutant of Trimmed: the ten entries after the new one are kept.
TrimmedDropsNewest(updated) == Take(Tail(updated), TrimmedSize)

\* const trimmed = updated.slice(0, 10)
Trimmed(updated) == Take(updated, TrimmedSize)

\* The outcomes of the two localStorage.setItem calls: "ok" the first write is
\* accepted; "retry" the first throws (quota) and the write of the trimmed
\* list is accepted; "full" both throw.
QuotaOutcomes == {"ok", "retry", "full"}

\* saveToHistory(item), as a function of the stored value, the fresh id, the
\* time and the storage's behaviour. threw = TRUE: the call raised (the
\* spread of a non-iterable, or the second setItem outside any try).
saveToHistory(st, item, id, ts, quota) ==
  LET newItem == NewItem(item, id, ts)
      updated == Updated(newItem, getHistory(st))
  IN  IF ~IsArrayValue(st)
        THEN [threw |-> TRUE, storage |-> st, newItem |-> newItem]
      ELSE IF quota = "ok"
        THEN [threw |-> FALSE, storage |-> JSONStringify(updated),
              newItem |-> newItem]
      ELSE IF quota = "retry"
        THEN [threw |-> FALSE,
              storage |-> JSONStringify(Trimmed(updated)),
              newItem |-> newItem]
      ELSE [threw |-> TRUE, storage |-> st, newItem |-> newItem]

RECURSIVE FilterOutId(_, _)
FilterOutId(history, id) ==
  IF history = <<>> THEN <<>>
  ELSE IF Head(history).id # id
       THEN <<Head(history)>> \o FilterOutId(Tail(history), id)
       ELSE FilterOutId(Tail(history), id)

\* The outcomes of the single localStorage.setItem call of
\* deleteFromHistory: accepted, or rejected with an exception.
WriteOutcomes == {"ok", "full"}

\* deleteFromHistory(id): history.filter(...) then setItem, with no try
\* around either. It raises when the parsed value has no filter method and
\* when setItem throws.
deleteFromHistory(st, id, quota) ==
  IF ~IsArrayValue(st)
    THEN [threw |-> TRUE, storage |-> st]
  ELSE IF quota = "full"
    THEN [threw |-> TRUE, storage |-> st]
  ELSE [threw |-> FALSE,
        storage |-> JSONStringify(FilterOutId(getHistory(st), id))]

\* clearHistory(): localStorage.removeItem(HISTORY_KEY)
clearHistory(st) == Absent

\* ---- ghosts of the store ----
\* lastOp.quota: how localStorage.setItem behaved during the last save.
NoItem == [filename |-> "", totalQuestions |-> 0, met |-> 0, notMet |-> 0,
           partial |-> 0, questions |-> <<>>, answers |-> <<>>]

NoOp == [op |-> "none", threw |-> FALSE, item |-> NoItem, id |-> 0,
         quota |-> "none"]

\* Freshness of crypto.randomUUID(): a counter. The mutant reuses one id.
FreshIdStuck(n) == 1

FreshId(n) == n

\* ---- tabs sharing the storage ----
\* MaxTabs: the documents of the origin that call saveToHistory at about the
\* same time. Each call is at "idle" before its getHistory(), at "read"
\* between its getHistory() and its setItem, at "done" after it returned or
\* raised; history and newItem are the locals of the call.
MaxTabs == 2

Tabs == 1..MaxTabs

IdleWriter ==
  [pc |-> "idle", history |-> <<>>, threw |-> FALSE,
   newItem |-> NewItem(NoItem, 0, 0)]

IdleWriters == [w \in Tabs |-> IdleWriter]

StoreIdle ==
  /\ storage = Absent /\ nextId = 1 /\ clock = 1 /\ lastOp = NoOp
  /\ log = <<>> /\ clean = TRUE /\ writers = IdleWriters

\* The effect of one saveToHistory call on the store variables.
DoSave(item, quota) ==
  LET r == saveToHistory(storage, item, FreshId(nextId), clock, quota)
  IN  /\ storage' = r.storage
      /\ nextId' = nextId + 1
      /\ clock' = clock + 1
      /\ lastOp' = [op |-> "save", threw |-> r.threw, item |-> item,
                    id |-> r.newItem.id, quota |-> quota]
      /\ log' = IF r.threw THEN log ELSE Append(log, r.newItem)
      /\ clean' = (clean /\ quota = "ok" /\ ~r.threw)
      /\ UNCHANGED writers

\* ---- the store driven on its own ----
MaxAppends == 52

\* The entries handed to saveToHistory.
ItemA == [filename |-> "a.pdf", totalQuestions |-> 2, met |-> 1, notMet |-> 1,
          partial |-> 0, questions |-> <<"q1", "q2">>,
          answers |-> (0 :> "MET" @@ 1 :> "NOT_MET")]

ItemB == [filename |-> "b.pdf", totalQuestions |-> 1, met |-> 0, notMet |-> 0,
          partial |-> 1, questions |-> <<"q3">>,
          answers |-> (0 :> "PARTIAL")]

HistItems == {ItemA, ItemB}

\* The calls (counted by clock) at which the caller's entry, the storage's
\* quota behaviour and the panel's delete/clear buttons are left open; at the
\* other calls ItemA is saved and the write is accepted.
VariedAt == {1, 2, 51}
FaultAt  == {3, 12}
EditAt   == {3, 13, 52}
DeleteIds == {1, 2, 99}

ItemsAt(k)  == IF k \in VariedAt THEN HistItems ELSE {ItemA}
QuotasAt(k) == IF k \in FaultAt THEN QuotaOutcomes ELSE {"ok"}

InitStore ==
  /\ storage \in {Absent, Garbage, JSONObject}
  /\ nextId = 1
  /\ clock = 1
  /\ lastOp = NoOp
  /\ log = <<>>
  /\ clean = (storage = Absent)
  /\ writers = IdleWriters

SaveToHistory(item, quota) ==
  /\ clock <= MaxAppends
  /\ item \in ItemsAt(clock)
  /\ quota \in QuotasAt(clock)
  /\ DoSave(item, quota)
  /\ UNCHANGED decoderVars
  /\ UNCHANGED homeVars

\* HistoryPanel.handleDelete
DeleteFromHistory(id, quota) ==
  /\ clock \in EditAt
  /\ id \in DeleteIds
  /\ quota \in WriteOutcomes
  /\ LET r == deleteFromHistory(storage, id, quota)
     IN  /\ storage' = r.storage
         /\ lastOp' = [op |-> "delete", threw |-> r.threw, item |-> NoItem,
                       id |-> id, quota |-> quota]
  /\ clean' = FALSE
  /\ UNCHANGED <<nextId, clock, log, writers>>
  /\ UNCHANGED decoderVars
  /\ UNCHANGED homeVars

\* HistoryPanel.handleClearAll
ClearHistory ==
  /\ clock \in EditAt
  /\ storage' = clearHistory(storage)
  /\ lastOp' = [op |-> "clear", threw |-> FALSE, item |-> NoItem, id |-> 0,
                quota |-> "none"]
  /\ clean' = FALSE
  /\ UNCHANGED <<nextId, clock, log, writers>>
  /\ UNCHANGED decoderVars
  /\ UNCHANGED homeVars

\* saveToHistory in tab w, up to its write: const history = getHistory(),
\* newItem, and the spread that builds `updated` (which raises on a stored
\* value that is not an array).
TabRead(w, item) ==
  /\ writers[w].pc = "idle"
  /\ LET newItem == NewItem(item, FreshId(nextId), clock)
     IN  writers' = [writers EXCEPT ![w] =
                       IF IsArrayValue(storage)
                         THEN [pc |-> "read", history |-> getHistory(storage),
                               threw |-> FALSE, newItem |-> newItem]
                         ELSE [pc |-> "done", history |-> <<>>,
                               threw |-> TRUE, newItem |-> newItem]]
  /\ nextId' = nextId + 1
  /\ clock' = clock + 1
  /\ UNCHANGED <<storage, lastOp, log, clean>>
  /\ UNCHANGED decoderVars
  /\ UNCHANGED homeVars

\* saveToHistory in tab w, from its first setItem to its return: the write
\* of `updated`, on rejection the write of `trimmed`.
TabWrite(w, quota) ==
  /\ writers[w].pc = "read"
  /\ LET newItem == writers[w].newItem
         updated == Updated(newItem, writers[w].history)
         threw   == quota = "full"
     IN  /\ storage' = IF quota = "ok" THEN JSONStringify(updated)
                       ELSE IF quota = "retry"
                         THEN JSONStringify(Trimmed(updated))
                       ELSE storage
         /\ writers' = [writers EXCEPT ![w].pc = "done", ![w].threw = threw]
         /\ lastOp' = [op |-> "save", threw |-> threw, item |-> NoItem,
                       id |-> newItem.id, quota |-> quota]
         /\ log' = IF threw THEN log ELSE Append(log, newItem)
  /\ clean' = FALSE
  /\ UNCHANGED <<nextId, clock>>
  /\ UNCHANGED decoderVars
  /\ UNCHANGED homeVars

(***************************************************************************)
(* JOB CONTROLLER: the Home component (app/page.tsx)                       *)
(***************************************************************************)
\* AnalysisProgress | null
NullProgress == [null |-> TRUE, answered |-> 0, total |-> 0, met |-> 0,
                 not_met |-> 0, partial |-> 0]

Snapshot(a, t, m, n, p) ==
  [null |-> FALSE, answered |-> a, total |-> t, met |-> m, not_met |-> n,
   partial |-> p]

\* string | null for `error`: a message is the concatenation of its parts,
\* null is the value with no part.
NullError == <<>>

\* type AnalysisPhase, in the order of the progress bar
PhaseOrder == <<"uploading", "extracting", "keywords", "searching",
                "analyzing", "complete">>

PhaseIndex(p) == CHOOSE i \in 1..Len(PhaseOrder) : PhaseOrder[i] = p

\* message.includes(marker): messages and markers are kept as word
\* sequences, includes is containment of a contiguous run of words.
Includes(message, marker) ==
  \E i \in 0..(Len(message) - Len(marker)) :
     SubSeq(message, i + 1, i + Len(marker)) = marker

\* The substrings the chain of case "status" looks for, by the phase its
\* branch sets.
Markers(p) ==
  IF p = "extracting" THEN {<<"Extracting", "questions">>}
  ELSE IF p = "keywords" THEN {<<"Extracting", "keywords">>, <<"keywords">>}
  ELSE IF p = "searching" THEN {<<"Searching">>, <<"search">>}
  ELSE IF p = "analyzing" THEN {<<"Analyzing", "compliance">>, <<"compliance">>}
  ELSE {}

\* case "status": the if / else-if chain that picks the phase
StatusPhase(message, ph) ==
  IF Includes(message, <<"Extracting", "questions">>) THEN "extracting"
  ELSE IF Includes(message, <<"Extracting", "keywords">>)
          \/ Includes(message, <<"keywords">>) THEN "keywords"
  ELSE IF Includes(message, <<"Searching">>)
          \/ Includes(message, <<"search">>) THEN "searching"
  ELSE IF Includes(message, <<"Analyzing", "compliance">>)
          \/ Includes(message, <<"compliance">>) THEN "analyzing"
  ELSE ph

\* Mutant of QuestionsProgress: a snapshot already held is kept.
QuestionsProgressStale(e) ==
  IF progress.null THEN Snapshot(0, e.total, 0, 0, 0) ELSE progress

\* case "questions": setProgress({answered: 0, total: event.total, ...})
QuestionsProgress(e) == Snapshot(0, e.total, 0, 0, 0)

\* Mutant of CompleteProgress: the counts are taken from the event but
\* `answered` is left at what the last answer event reported.
CompleteProgressKeepsAnswered(e, prev) ==
  Snapshot(IF prev.null THEN 0 ELSE prev.answered, e.total, e.met, e.not_met,
           e.partial)

\* case "complete": finalProgress = {answered: event.total, total: ...}
CompleteProgress(e, prev) ==
  Snapshot(e.total, e.total, e.met, e.not_met, e.partial)

\* { ...prev, [event.index]: event.answer }  and  finalAnswers[index] = answer
PutAnswer(as, index, answer) ==
  [i \in (DOMAIN as) \cup {index} |-> IF i = index THEN answer ELSE as[i]]

\* The argument of saveToHistory in case "complete"
CompletedItem(file, e, finalQuestions, finalAnswers) ==
  [filename       |-> file,
   totalQuestions |-> e.total,
   met            |-> e.met,
   notMet         |-> e.not_met,
   partial        |-> e.partial,
   questions      |-> finalQuestions,
   answers        |-> finalAnswers]

\* What the exception thrown inside saveToHistory carries as its message.
StoreErrorMessage(st) ==
  IF ~IsArrayValue(st) THEN <<"history is not iterable">>
  ELSE <<"QuotaExceededError">>

\* Mutant of StreamErrorMessage: the source's message passed on bare.
StreamErrorMessageBare(err) ==
  IF err.isError THEN <<err.message>> ELSE <<"Stream interrupted">>

\* catch (streamError) { msg = ...; throw new Error(`Connection lost during
\* analysis: ${msg}`) }
StreamErrorMessage(err) ==
  <<"Connection lost during analysis: ",
    IF err.isError THEN err.message ELSE "Stream interrupted">>

\* Mutant of EstablishErrorMessage: one fixed message whatever the cause.
EstablishErrorMessageGeneric(cause) == <<"Analysis failed">>

\* The messages of the errors thrown before the read loop starts. The causes:
\* "network" fetch rejects; "detail" a non-ok response whose JSON body has a
\* detail; "status" a non-ok response whose JSON body has none; "unparsed" a
\* non-ok response whose body is not JSON; "nobody" an ok response without a
\* body.
EstablishErrorMessage(cause) ==
  IF cause = "network"
    THEN <<"Connection failed: ", "Failed to fetch",
           ". Please check your internet connection.">>
  ELSE IF cause = "detail" THEN <<"Unsupported file">>
  ELSE IF cause = "status" THEN <<"Analysis failed: ", "500">>
  ELSE IF cause = "unparsed"
    THEN <<"Server error: ", "500", " ", "Internal Server Error">>
  ELSE <<"No response body from server">>

EstablishCauses == {"network", "detail", "status", "unparsed", "nobody"}

\* ---- the events the server sends ----
\* MaxJobs: files selected in one session. MaxInputs: files selected plus
\* records received in one session.
MaxJobs   == 2
MaxInputs == 4

\* The file the user picks for the k-th analysis.
FileOf(k) == IF k % 2 = 1 THEN "a.pdf" ELSE "b.pdf"

StatusEvents ==
  {[type |-> "status", message |-> m] :
     m \in {<<"Extracting", "questions", "from", "PDF">>,
            <<"Generating", "keywords">>,
            <<"Searching", "policies">>,
            <<"Searching", "with", "keywords">>,
            <<"Analyzing", "compliance">>}}

QuestionsEvents ==
  {[type |-> "questions", questions |-> <<"q1", "q2">>, total |-> 2],
   [type |-> "questions", questions |-> <<"q3">>, total |-> 1]}

AnswerEvents ==
  {[type |-> "answer", index |-> 0, answer |-> "MET",
    progress |-> Snapshot(1, 2, 1, 0, 0)],
   [type |-> "answer", index |-> 1, answer |-> "NOT_MET",
    progress |-> Snapshot(2, 2, 1, 1, 0)],
   [type |-> "answer", index |-> 0, answer |-> "PARTIAL",
    progress |-> Snapshot(1, 2, 0, 0, 1)],
   [type |-> "answer", index |-> 5, answer |-> "MET",
    progress |-> Snapshot(3, 2, 2, 0, 0)]}

CompleteEvents ==
  {[type |-> "complete", total |-> 2, met |-> 1, not_met |-> 1, partial |-> 0],
   [type |-> "complete", total |-> 1, met |-> 0, not_met |-> 0, partial |-> 1]}

ErrorEvents == {[type |-> "error", message |-> "LLM quota exceeded"]}

SourceErrors == {[isError |-> TRUE, message |-> "network error"],
                 [isError |-> FALSE, message |-> ""]}

NoEvent == [type |-> "none"]

\* ---- one handleFileSelect invocation ----
\* pc: "fetch" awaiting fetch(); "stream" inside for-await, awaiting the next
\* event; "ended" the loop finished (reader reported done); "threw" the catch
\* block ran.  got, terminal, result, saved and abandoned are ghosts: whether
\* an event was applied, whether a complete or error record was applied, the
\* last state this invocation put the controller in, entries it appended,
\* whether handleReset ran while the controller was analyzing and this
\* invocation had not returned.
NewJob(file) ==
  [file |-> file, pc |-> "fetch", finalQuestions |-> <<>>,
   finalAnswers |-> <<>>, got |-> FALSE, terminal |-> FALSE,
   result |-> "none", saved |-> 0, abandoned |-> FALSE]

NoFields == [x \in {} |-> 0]

\* The invocation has returned: its locals are gone.
Returned(job, pc, fields) ==
  [f \in DOMAIN job |->
     IF f = "pc" THEN pc
     ELSE IF f \in {"finalQuestions", "finalAnswers"} THEN <<>>
     ELSE IF f \in DOMAIN fields THEN fields[f]
     ELSE job[f]]

Running(j) == jobs[j].pc \in {"fetch", "stream"}

\* ghost: the invocations a handleReset issued now leaves behind. handleReset
\* holds no reference to the running handleFileSelect, its reader or an
\* AbortController: pc and the closure's locals stay as they are.
Abandon(js, state) ==
  [j \in 1..Len(js) |->
     IF state = "analyzing" /\ js[j].pc \in {"fetch", "stream"}
       THEN [js[j] EXCEPT !.abandoned = TRUE]
       ELSE js[j]]

\* ghost: the display shows nothing, the job of invocation ref, or the
\* history entry with id ref.
ShowsNothing    == [kind |-> "none", ref |-> 0]
ShowsJob(j)     == [kind |-> "job", ref |-> j]
ShowsHistory(i) == [kind |-> "history", ref |-> i]

HomeIdle ==
  /\ shown = ShowsNothing
  /\ activeTab = "analyze" /\ analysisState = "idle" /\ phase = "uploading"
  /\ questions = <<>> /\ answers = <<>> /\ progress = NullProgress
  /\ error = NullError /\ currentFilename = "" /\ jobs = <<>>
  /\ trace = [job |-> 0, event |-> NoEvent, n |-> 0]

\* ghost: event e of invocation j has just been applied, as the n-th event
Step(j, e) == trace' = [job |-> j, event |-> e, n |-> trace.n + 1]

\* handleFileSelect up to its first await. The upload control is rendered
\* only on the analyze tab while analysisState is idle.
Start(file) ==
  /\ file = FileOf(Len(jobs) + 1)
  /\ activeTab = "analyze"
  /\ analysisState = "idle"
  /\ Len(jobs) < MaxJobs
  /\ Len(jobs) + trace.n < MaxInputs
  /\ analysisState' = "analyzing"
  /\ phase' = "uploading"
  /\ questions' = <<>>
  /\ answers' = <<>>
  /\ progress' = NullProgress
  /\ error' = NullError
  /\ currentFilename' = file
  /\ activeTab' = "analyze"
  /\ jobs' = Append(jobs, NewJob(file))
  /\ UNCHANGED trace
  /\ UNCHANGED storeVars
  /\ shown' = ShowsJob(Len(jobs) + 1)
  /\ UNCHANGED decoderVars

\* The first file selected in a session.
StartFirst(file) ==
  /\ jobs = <<>>
  /\ Start(file)

\* fetch resolves with an ok response that has a body: the read loop starts.
EstablishOk(j) ==
  /\ j \in 1..Len(jobs)
  /\ jobs[j].pc = "fetch"
  /\ jobs' = [jobs EXCEPT ![j].pc = "stream"]
  /\ UNCHANGED trace
  /\ UNCHANGED uiVars
  /\ UNCHANGED storeVars
  /\ UNCHANGED decoderVars

\* fetch rejects, the response is not ok, or it has no body: analyzeStream
\* throws and handleFileSelect's catch runs.
EstablishFail(j, cause) ==
  /\ j \in 1..Len(jobs)
  /\ jobs[j].pc = "fetch"
  /\ analysisState' = "error"
  /\ error' = EstablishErrorMessage(cause)
  /\ jobs' = [jobs EXCEPT ![j] =
                Returned(jobs[j], "threw", [result |-> "error"])]
  /\ UNCHANGED trace
  /\ UNCHANGED <<activeTab, phase, questions, answers, progress, currentFilename>>
  /\ UNCHANGED storeVars
  /\ UNCHANGED shown
  /\ UNCHANGED decoderVars

\* The for-await loop has handed the next event of job j to the switch.
Receives(j) ==
  /\ j \in 1..Len(jobs)
  /\ jobs[j].pc = "stream"
  /\ Len(jobs) + trace.n < MaxInputs

Applied(j, fields) ==
  [jobs EXCEPT ![j] = [f \in DOMAIN jobs[j] |->
                         IF f = "got" THEN TRUE
                         ELSE IF f \in DOMAIN fields THEN fields[f]
                         ELSE jobs[j][f]]]

\* case "status"
OnStatus(j, e) ==
  /\ Receives(j)
  /\ e \in StatusEvents
  /\ phase' = StatusPhase(e.message, phase)
  /\ jobs' = Applied(j, NoFields)
  /\ Step(j, e)
  /\ UNCHANGED <<activeTab, analysisState, questions, answers, progress, error,
                 currentFilename>>
  /\ UNCHANGED storeVars
  /\ UNCHANGED shown
  /\ UNCHANGED decoderVars

\* case "questions"
OnQuestions(j, e) ==
  /\ Receives(j)
  /\ e \in QuestionsEvents
  /\ questions' = e.questions
  /\ phase' = "keywords"
  /\ progress' = QuestionsProgress(e)
  /\ jobs' = Applied(j, [finalQuestions |-> e.questions])
  /\ Step(j, e)
  /\ UNCHANGED <<activeTab, analysisState, answers, error, currentFilename>>
  /\ UNCHANGED storeVars
  /\ UNCHANGED shown
  /\ UNCHANGED decoderVars

\* case "answer"
OnAnswer(j, e) ==
  /\ Receives(j)
  /\ e \in AnswerEvents
  /\ answers' = PutAnswer(answers, e.index, e.answer)
  /\ progress' = e.progress
  /\ jobs' = Applied(j, [finalAnswers |->
                           PutAnswer(jobs[j].finalAnswers, e.index, e.answer)])
  /\ Step(j, e)
  /\ UNCHANGED <<activeTab, analysisState, phase, questions, error,
                 currentFilename>>
  /\ UNCHANGED storeVars
  /\ UNCHANGED shown
  /\ UNCHANGED decoderVars

\* case "complete": the state updates, then saveToHistory; when that call
\* raises, the loop is left through handleFileSelect's catch block.
OnComplete(j, e, quota) ==
  /\ Receives(j)
  /\ e \in CompleteEvents
  /\ quota \in QuotaOutcomes
  /\ LET item == CompletedItem(jobs[j].file, e, jobs[j].finalQuestions,
                               jobs[j].finalAnswers)
         r    == saveToHistory(storage, item, FreshId(nextId), clock, quota)
     IN  /\ DoSave(item, quota)
         /\ phase' = "complete"
         /\ progress' = CompleteProgress(e, progress)
         /\ IF r.threw
              THEN /\ analysisState' = "error"
                   /\ error' = StoreErrorMessage(storage)
                   /\ jobs' = [jobs EXCEPT ![j] =
                                Returned(jobs[j], "threw",
                                         [got |-> TRUE, terminal |-> TRUE,
                                          result |-> "error"])]
              ELSE /\ analysisState' = "complete"
                   /\ error' = error
                   /\ jobs' = Applied(j, [terminal |-> TRUE,
                                          result |-> "complete",
                                          saved |-> jobs[j].saved + 1])
  /\ Step(j, e)
  /\ UNCHANGED <<activeTab, questions, answers, currentFilename>>
  /\ UNCHANGED shown
  /\ UNCHANGED decoderVars

\* case "error"
OnError(j, e) ==
  /\ Receives(j)
  /\ e \in ErrorEvents
  /\ analysisState' = "error"
  /\ error' = <<e.message>>
  /\ jobs' = Applied(j, [terminal |-> TRUE, result |-> "error"])
  /\ Step(j, e)
  /\ UNCHANGED <<activeTab, phase, questions, answers, progress,
                 currentFilename>>
  /\ UNCHANGED storeVars
  /\ UNCHANGED shown
  /\ UNCHANGED decoderVars

\* reader.read() reports done: the generator returns, the for-await loop and
\* handleFileSelect end. No state setter is called.
StreamDone(j) ==
  /\ j \in 1..Len(jobs)
  /\ jobs[j].pc = "stream"
  /\ jobs' = [jobs EXCEPT ![j] = Returned(jobs[j], "ended", NoFields)]
  /\ UNCHANGED trace
  /\ UNCHANGED uiVars
  /\ UNCHANGED storeVars
  /\ UNCHANGED decoderVars

\* reader.read() rejects: analyzeStream rethrows, handleFileSelect's catch
\* sets the error state.
StreamError(j, err) ==
  /\ j \in 1..Len(jobs)
  /\ jobs[j].pc = "stream"
  /\ err \in SourceErrors
  /\ analysisState' = "error"
  /\ error' = StreamErrorMessage(err)
  /\ jobs' = [jobs EXCEPT ![j] =
                Returned(jobs[j], "threw", [result |-> "error"])]
  /\ UNCHANGED trace
  /\ UNCHANGED <<activeTab, phase, questions, answers, progress, currentFilename>>
  /\ UNCHANGED storeVars
  /\ UNCHANGED shown
  /\ UNCHANGED decoderVars

\* Mutant of HandleReset: the reset also removes the stored history.
HandleResetClearsHistory ==
  /\ activeTab = "analyze"
  /\ analysisState # "idle"
  /\ analysisState' = "idle"
  /\ phase' = "uploading"
  /\ questions' = <<>>
  /\ answers' = <<>>
  /\ progress' = NullProgress
  /\ error' = NullError
  /\ currentFilename' = ""
  /\ jobs' = Abandon(jobs, analysisState)
  /\ storage' = clearHistory(storage)
  /\ UNCHANGED trace
  /\ UNCHANGED activeTab
  /\ UNCHANGED <<nextId, clock, lastOp, log, clean, writers>>
  /\ shown' = ShowsNothing
  /\ UNCHANGED decoderVars

\* handleReset: the "New analysis" and "Try Again" buttons, rendered on the
\* analyze tab whenever analysisState is not idle.
HandleReset ==
  /\ activeTab = "analyze"
  /\ analysisState # "idle"
  /\ analysisState' = "idle"
  /\ phase' = "uploading"
  /\ questions' = <<>>
  /\ answers' = <<>>
  /\ progress' = NullProgress
  /\ error' = NullError
  /\ currentFilename' = ""
  /\ jobs' = Abandon(jobs, analysisState)
  /\ UNCHANGED trace
  /\ UNCHANGED activeTab
  /\ UNCHANGED storeVars
  /\ shown' = ShowsNothing
  /\ UNCHANGED decoderVars

\* handleSelectHistory(item): a click on an entry of the history panel, which
\* is rendered on the history tab and lists getHistory().
HandleSelectHistory(i) ==
  /\ activeTab = "history"
  /\ IsArrayValue(storage)
  /\ i \in 1..Len(getHistory(storage))
  /\ LET item == getHistory(storage)[i]
     IN  /\ questions' = item.questions
         /\ answers' = item.answers
         /\ progress' = Snapshot(item.totalQuestions, item.totalQuestions,
                                 item.met, item.notMet, item.partial)
         /\ currentFilename' = item.filename
  /\ analysisState' = "complete"
  /\ phase' = "complete"
  /\ activeTab' = "analyze"
  /\ UNCHANGED trace
  /\ UNCHANGED <<error, jobs>>
  /\ UNCHANGED storeVars
  /\ shown' = ShowsHistory(getHistory(storage)[i].id)
  /\ UNCHANGED decoderVars

\* The two tab buttons of the header, and the panel's close button.
SetActiveTab(tab) ==
  /\ tab \in {"analyze", "history"}
  /\ tab # activeTab
  /\ activeTab' = tab
  /\ UNCHANGED trace
  /\ UNCHANGED <<analysisState, phase, questions, answers, progress, error,
                 currentFilename, jobs>>
  /\ UNCHANGED storeVars
  /\ UNCHANGED shown
  /\ UNCHANGED decoderVars

(***************************************************************************)
(* PIPELINE: handleFileSelect's for-await loop driving analyzeStream        *)
(***************************************************************************)
\* The records of the responses the pipeline reads.
RecStatusEvent   == DataPrefix \o <<"{status}", LF>>
RecCompleteEvent == DataPrefix \o <<"{complete}", LF>>
PipeRecords      == {RecStatusEvent, RecCompleteEvent, RecMalformed}

PipeStreams == {Flatten(rs) : rs \in SeqsUpTo(PipeRecords, MaxRecords)}

\* `JSON.parse(...) as SSEEvent`: the event a parsed object is.
EventOf(v) ==
  IF v.value = "{status}"
    THEN [type |-> "status", message |-> <<"Searching", "policies">>]
    ELSE [type |-> "complete", total |-> 1, met |-> 0, not_met |-> 0,
          partial |-> 1]

\* The state once handleFileSelect(file) has run to its for-await and fetch
\* has resolved with a readable body.
HomeStreaming ==
  /\ shown = ShowsJob(1)
  /\ activeTab = "analyze" /\ analysisState = "analyzing"
  /\ phase = "uploading"
  /\ questions = <<>> /\ answers = <<>> /\ progress = NullProgress
  /\ error = NullError /\ currentFilename = FileOf(1)
  /\ jobs = <<[NewJob(FileOf(1)) EXCEPT !.pc = "stream"]>>
  /\ trace = [job |-> 0, event |-> NoEvent, n |-> 0]

InitPipeDecoder ==
  /\ sent \in PipeStreams
  /\ wire = sent
  /\ pending = <<>>
  /\ buffer = <<>>
  /\ yielded = <<>>
  /\ dpc = "open"
  /\ midSplit = FALSE
  /\ batch = <<>>

\* Mutant of ConsumerWaiting: the generator runs on without the consumer
\* having asked for the next event.
ConsumerWaitingAlways(j) == jobs[j].pc = "stream"

\* The for-await loop of invocation j has called next() and awaits its
\* result: every event yielded so far has been through the loop body. An
\* async generator runs only between a next() call and its following yield.
ConsumerWaiting(j) == jobs[j].pc = "stream" /\ trace.n = Len(yielded)

\* await reader.read() resolves with the next n bytes; decode, split, keep
\* the tail; the for-loop over the lines starts.
PipeRead(n) ==
  /\ ConsumerWaiting(1)
  /\ dpc = "open"
  /\ batch = <<>>
  /\ n \in 1..Len(wire)
  /\ LET dec   == UTF8Decode(pending \o Take(wire, n))
         lines == Split(buffer \o dec.out)
     IN  /\ pending' = dec.pend
         /\ buffer' = KeepTail(lines)
         /\ batch' = SubSeq(lines, 1, Len(lines) - 1)
         /\ midSplit' = (midSplit \/ (n < Len(wire)
                                       /\ (KeepTail(lines) # <<>>
                                           \/ dec.pend # <<>>)))
  /\ wire' = Drop(wire, n)
  /\ UNCHANGED <<sent, yielded, dpc>>
  /\ UNCHANGED storeVars
  /\ UNCHANGED homeVars

\* One iteration of `for (const line of lines)`: a "data: " line that parses
\* is yielded, which suspends the generator; any other line is passed over.
PipeYield ==
  /\ ConsumerWaiting(1)
  /\ batch # <<>>
  /\ yielded' = yielded \o YieldLines(<<Head(batch)>>)
  /\ batch' = Tail(batch)
  /\ UNCHANGED <<sent, wire, pending, buffer, dpc, midSplit>>
  /\ UNCHANGED storeVars
  /\ UNCHANGED homeVars

\* reader.read() reports done: the generator returns.
PipeDone ==
  /\ ConsumerWaiting(1)
  /\ dpc = "open"
  /\ batch = <<>>
  /\ wire = <<>>
  /\ dpc' = "done"
  /\ UNCHANGED <<sent, wire, pending, buffer, yielded, midSplit, batch>>
  /\ UNCHANGED storeVars
  /\ UNCHANGED homeVars

\* The for-await loop sees the generator's return and ends.
PipeEnd ==
  /\ dpc = "done"
  /\ StreamDone(1)

\* reader.read() rejects while the generator awaits it.
PipeError(err) ==
  /\ ConsumerWaiting(1)
  /\ dpc = "open"
  /\ batch = <<>>
  /\ StreamError(1, err)

\* The loop body of handleFileSelect on the event just yielded.
PipeApplyStatus ==
  /\ trace.n < Len(yielded)
  /\ OnStatus(1, EventOf(yielded[trace.n + 1]))

PipeApplyComplete(quota) ==
  /\ trace.n < Len(yielded)
  /\ OnComplete(1, EventOf(yielded[trace.n + 1]), quota)

(***************************************************************************)
(* The specifications                                                      *)
(***************************************************************************)
InitD == InitDecoder /\ StoreIdle /\ HomeIdle

NextD ==
  \/ \E n \in 1..Len(wire) : ReadChunk(n)
  \/ ReadDone

SpecDecoder == InitD /\ [][NextD]_vars

InitH == DecoderIdle /\ InitStore /\ HomeIdle

NextH ==
  \/ \E item \in HistItems, quota \in QuotaOutcomes :
        SaveToHistory(item, quota)
  \/ \E id \in DeleteIds, quota \in WriteOutcomes :
        DeleteFromHistory(id, quota)
  \/ ClearHistory

SpecHistory == InitH /\ [][NextH]_vars

\* One job whose events come from the decoder, record by record.
InitPipe == InitPipeDecoder /\ StoreIdle /\ HomeStreaming

NextPipe ==
  \/ \E n \in 1..Len(wire) : PipeRead(n)
  \/ PipeYield
  \/ PipeDone
  \/ PipeEnd
  \/ \E err \in SourceErrors : PipeError(err)
  \/ PipeApplyStatus
  \/ \E q \in QuotaOutcomes : PipeApplyComplete(q)

SpecPipe == InitPipe /\ [][NextPipe]_vars

\* Tabs of one origin, each running one saveToHistory call; the scheduler
\* may run a step of another tab between the read and the write of a call.
InitT == DecoderIdle /\ InitStore /\ HomeIdle

NextT ==
  \/ \E w \in Tabs, item \in HistItems : TabRead(w, item)
  \/ \E w \in Tabs, quota \in QuotaOutcomes : TabWrite(w, quota)

SpecTabs == InitT /\ [][NextT]_vars

Init ==
  /\ DecoderIdle
  /\ StoreIdle
  /\ HomeIdle

Next ==
  \/ \E f \in {FileOf(k) : k \in 1..MaxJobs} : Start(f)
  \/ \E j \in 1..Len(jobs) : EstablishOk(j)
  \/ \E j \in 1..Len(jobs), c \in EstablishCauses :
        EstablishFail(j, c)
  \/ \E j \in 1..Len(jobs), e \in StatusEvents :
        OnStatus(j, e)
  \/ \E j \in 1..Len(jobs), e \in QuestionsEvents :
        OnQuestions(j, e)
  \/ \E j \in 1..Len(jobs), e \in AnswerEvents :
        OnAnswer(j, e)
  \/ \E j \in 1..Len(jobs), e \in CompleteEvents, q \in QuotaOutcomes :
        OnComplete(j, e, q)
  \/ \E j \in 1..Len(jobs), e \in ErrorEvents :
        OnError(j, e)
  \/ \E j \in 1..Len(jobs) : StreamDone(j)
  \/ \E j \in 1..Len(jobs), err \in SourceErrors :
        StreamError(j, err)
  \/ HandleReset
  \/ \E i \in 1..MAX_HISTORY_ITEMS :
        HandleSelectHistory(i)
  \/ \E t \in {"analyze", "history"} : SetActiveTab(t)

Spec == Init /\ [][Next]_vars

\* A session in which one file is analysed.
NextJob ==
  \/ \E f \in {FileOf(k) : k \in 1..MaxJobs} : StartFirst(f)
  \/ \E j \in 1..Len(jobs) : EstablishOk(j)
  \/ \E j \in 1..Len(jobs), c \in EstablishCauses :
        EstablishFail(j, c)
  \/ \E j \in 1..Len(jobs), e \in StatusEvents :
        OnStatus(j, e)
  \/ \E j \in 1..Len(jobs), e \in QuestionsEvents :
        OnQuestions(j, e)
  \/ \E j \in 1..Len(jobs), e \in AnswerEvents :
        OnAnswer(j, e)
  \/ \E j \in 1..Len(jobs), e \in CompleteEvents, q \in QuotaOutcomes :
        OnComplete(j, e, q)
  \/ \E j \in 1..Len(jobs), e \in ErrorEvents :
        OnError(j, e)
  \/ \E j \in 1..Len(jobs) : StreamDone(j)
  \/ \E j \in 1..Len(jobs), err \in SourceErrors :
        StreamError(j, err)
  \/ HandleReset
  \/ \E i \in 1..MAX_HISTORY_ITEMS :
        HandleSelectHistory(i)
  \/ \E t \in {"analyze", "history"} : SetActiveTab(t)

SpecJob == Init /\ [][NextJob]_vars

(***************************************************************************)
(* PROPERTIES                                                              *)
(***************************************************************************)
SingleChunk == ProcessChunk(<<>>, <<>>, sent)

\* C1 (SpecDecoder): when the read loop has ended, the events yielded over
\* any division of the bytes into chunks are exactly the events one chunk
\* holding all the bytes yields.
C1_ChunkingInvariance ==
  dpc = "done" => yielded = SingleChunk.events

\* A run that split inside a record (and inside the two-byte character's
\* record) and still yielded two events.
C1_Witness ==
  /\ dpc = "done"
  /\ midSplit
  /\ Len(yielded) = 2
  /\ \E i \in 1..2 : yielded[i].type = "string"

\* An event has just been applied (the step's post-state is primed).
EventStep == trace'.n = trace.n + 1

EventSnapshot(e) == Snapshot(e.total, e.total, e.met, e.not_met, e.partial)

\* C2 (SpecJob): every event moves the phase forward or leaves it, in the
\* order uploading < extracting < keywords < searching < analyzing <
\* complete, unless the job is Failed.
C2_PhaseMonotonic ==
  [][EventStep =>
       \/ PhaseIndex(phase') >= PhaseIndex(phase)
       \/ analysisState' = "error"
       \/ analysisState = "error"]_vars

\* C3 (SpecJob): the step that applies complete{total, met, partial, not_met}
\* leaves the progress snapshot {answered: total, total, met, partial,
\* not_met}, whatever the snapshot was before.
C3_TerminalAggregation ==
  [][(EventStep /\ trace'.event.type = "complete")
       => progress' = EventSnapshot(trace'.event)]_vars

\* complete applied after an answer event whose embedded snapshot
\* (answered 3 of 2) it overrode.
C3_Witness ==
  /\ Len(jobs) = 1
  /\ trace.event.type = "complete"
  /\ jobs[1].pc = "stream"
  /\ DOMAIN jobs[1].finalAnswers = {5}
  /\ progress = EventSnapshot(trace.event)

\* C4 (SpecHistory): after k saveToHistory calls on an initially absent
\* store with every write accepted, getHistory() is the min(k, 50) most
\* recently returned entries, most recent first.
C4_HistoryCapAndOrder ==
  clean => getHistory(storage) = Take(Reverse(log), MAX_HISTORY_ITEMS)

\* More than 50 appends, the store at its cap.
C4_Witness ==
  /\ clean
  /\ Len(log) > MAX_HISTORY_ITEMS
  /\ Len(getHistory(storage)) = MAX_HISTORY_ITEMS

SameFields(entry, item) ==
  /\ entry.filename = item.filename
  /\ entry.totalQuestions = item.totalQuestions
  /\ entry.met = item.met
  /\ entry.notMet = item.notMet
  /\ entry.partial = item.partial
  /\ entry.questions = item.questions
  /\ entry.answers = item.answers

\* C5 (SpecHistory): right after a saveToHistory(e) that returned,
\* getHistory() holds an entry equal to e in its seven payload fields whose
\* id no other entry of the collection carries.
C5_AppendListRoundTrip ==
  (lastOp.op = "save" /\ ~lastOp.threw) =>
     LET h == getHistory(storage)
     IN  \E i \in 1..Len(h) :
            /\ SameFields(h[i], lastOp.item)
            /\ h[i].id = lastOp.id
            /\ \A k \in 1..Len(h) : k # i => h[k].id # h[i].id

\* A save of ItemB onto a store that already held other entries.
C5_Witness ==
  /\ lastOp.op = "save" /\ ~lastOp.threw
  /\ lastOp.item = ItemB
  /\ Len(getHistory(storage)) >= 2
  /\ \E i \in 1..Len(getHistory(storage)) :
        getHistory(storage)[i].filename = "a.pdf"

\* C6 (SpecJob): a job that an error record has put in the Failed state has
\* left the history collection as it was before the job started (empty, in
\* a one-file session), whatever records came before the error record.
C6_FailedJobNeverPersisted ==
  \A j \in 1..Len(jobs) :
     (trace.job = j /\ trace.event.type = "error" /\ jobs[j].result = "error")
        => getHistory(storage) = <<>>

TransportMessages == {StreamErrorMessage(err) : err \in SourceErrors}

\* The byte source raised while job j was reading, after a record and before
\* any complete or error record.
InterruptedStep(j) ==
  /\ jobs[j].pc = "stream" /\ jobs[j].got /\ ~jobs[j].terminal
  /\ jobs'[j].pc = "threw"
  /\ trace' = trace

\* C7 (SpecJob): such a step makes the job Failed with a "Connection lost
\* during analysis" message, keeps the questions and answers received, and
\* writes nothing to history.
C7_TransportInterruption ==
  [][\A j \in 1..Len(jobs) :
       InterruptedStep(j) =>
         /\ analysisState' = "error"
         /\ error' \in TransportMessages
         /\ Head(error') = "Connection lost during analysis: "
         /\ questions' = questions
         /\ answers' = answers
         /\ storage' = storage
         /\ log' = log]_vars

\* Interrupted after a questions and an answer event: Failed, both retained,
\* history empty.
C7_Witness ==
  /\ Len(jobs) = 1
  /\ jobs[1].pc = "threw" /\ jobs[1].got /\ ~jobs[1].terminal
  /\ analysisState = "error"
  /\ error \in TransportMessages
  /\ questions # <<>>
  /\ answers # <<>>
  /\ getHistory(storage) = <<>>

\* C8 (SpecJob): once the stream of a job has ended (done) after a record
\* and without a complete or error record, the controller is not left in
\* 'analyzing'.
C8_EndedStreamNotInFlight ==
  \A j \in 1..Len(jobs) :
     (jobs[j].pc = "ended" /\ jobs[j].got /\ ~jobs[j].terminal)
        => analysisState # "analyzing"

\* C9 (SpecJob): the step that applies a complete record to an InFlight job
\* makes it Complete and puts at the head of the history an entry with the
\* job's filename, the record's totals and the job's accumulated questions
\* and answers.
C9_CompletionPersists ==
  [][(EventStep /\ trace'.event.type = "complete" /\ analysisState = "analyzing")
       => LET j == trace'.job
              h == getHistory(storage')
          IN  /\ analysisState' = "complete"
              /\ Len(h) = Min(Len(getHistory(storage)) + 1, MAX_HISTORY_ITEMS)
              /\ SameFields(h[1], CompletedItem(jobs[j].file, trace'.event,
                                                jobs[j].finalQuestions,
                                                jobs[j].finalAnswers))]_vars

\* C10 (Spec): at most one handleFileSelect invocation is fetching or
\* consuming its stream.
C10_SingleJobInFlight ==
  Cardinality({j \in 1..Len(jobs) : Running(j)}) <= 1

\* C11 (SpecJob): once handleReset has abandoned an analyzing job, no event of
\* that job's stream changes analysisState, questions, answers, progress or
\* error, and none writes to the history.
C11_Cancellation ==
  [][\A j \in 1..Len(jobs) :
       (jobs[j].abandoned /\ EventStep /\ trace'.job = j) =>
          /\ analysisState' = analysisState
          /\ questions' = questions
          /\ answers' = answers
          /\ progress' = progress
          /\ error' = error
          /\ storage' = storage]_vars

\* The newline-terminated lines of the whole response, and the events of
\* those among them that are "data: " lines with a parseable payload.
SentLines ==
  LET ls == Split(UTF8Decode(sent).out)
  IN  SubSeq(ls, 1, Len(ls) - 1)

WellFormed(line) == StartsWithData(line) /\ ~JSONParseThrows(Slice6(line))

Malformed(line) == StartsWithData(line) /\ JSONParseThrows(Slice6(line))

WellFormedEvents ==
  LET good == SelectSeq(SentLines, WellFormed)
  IN  [i \in 1..Len(good) |-> JSONParseText(Slice6(good[i]))]

\* C12 (SpecDecoder): whatever lines of the response fail JSON parsing, the
\* events yielded are at every moment a prefix of the events of the
\* well-formed lines, in their order, and all of them once the read loop has
\* ended; a malformed line ends neither the loop nor the generator.
C12_MalformedIsolated ==
  /\ Len(yielded) <= Len(WellFormedEvents)
  /\ yielded = SubSeq(WellFormedEvents, 1, Len(yielded))
  /\ (dpc = "done" => yielded = WellFormedEvents)

\* A response with a malformed line before a well-formed one, read to its
\* end: the event of the later line was yielded.
C12_Witness ==
  /\ dpc = "done"
  /\ \E i \in 1..Len(SentLines), k \in 1..Len(SentLines) :
        i < k /\ Malformed(SentLines[i]) /\ WellFormed(SentLines[k])
  /\ Len(yielded) = 1

\* C13 (SpecJob): when the storage rejects both the full write and the
\* reduced retry during the saveToHistory call of a complete record,
\* saveToHistory does not raise, the job is Complete and the stored
\* collection is what it was before the call.
C13_StorageFaultSwallowed ==
  [][(EventStep /\ trace'.event.type = "complete" /\ lastOp'.quota = "full")
       => /\ ~lastOp'.threw
          /\ analysisState' = "complete"
          /\ storage' = storage]_vars

\* A saveToHistory call has just run (the step's post-state is primed).
SaveStep == clock' = clock + 1

\* C14 (SpecHistory): a saveToHistory call whose first write is rejected and
\* whose retry is accepted returns the new entry and leaves a stored array
\* made of that entry followed by the (up to) 9 entries that headed the
\* collection before, in their order.
C14_DegradeOnExhaustion ==
  [][(SaveStep /\ lastOp'.quota = "retry" /\ IsArrayValue(storage))
       => LET h    == getHistory(storage')
              prev == getHistory(storage)
              kept == Min(TrimmedSize - 1, Len(prev))
          IN  /\ ~lastOp'.threw
              /\ storage'.kind = "array"
              /\ Len(h) = 1 + kept
              /\ h[1].id = lastOp'.id
              /\ SameFields(h[1], lastOp'.item)
              /\ Tail(h) = SubSeq(prev, 1, kept)]_vars

\* The twelfth save degraded a collection of eleven entries to ten, the new
\* entry first.
C14_Witness ==
  /\ lastOp.op = "save" /\ lastOp.quota = "retry" /\ ~lastOp.threw
  /\ Len(log) >= TrimmedSize + 2
  /\ Len(getHistory(storage)) = TrimmedSize
  /\ getHistory(storage)[1].id = lastOp.id
  /\ getHistory(storage)[2].id = lastOp.id - 1

\* C15 (SpecHistory): whatever is stored under the history key (nothing,
\* text that does not parse, JSON that is not an array), a saveToHistory(e)
\* whose write the storage accepts returns and leaves an array whose head
\* is e.
C15_CorruptTreatedAsEmpty ==
  [][(SaveStep /\ lastOp'.quota = "ok")
       => /\ ~lastOp'.threw
          /\ storage'.kind = "array"
          /\ getHistory(storage')[1].id = lastOp'.id
          /\ SameFields(getHistory(storage')[1], lastOp'.item)]_vars

\* C16 (SpecJob): a step from Complete or Failed to idle (handleReset) leaves
\* no question, answer, progress, error or filename in memory and leaves the
\* stored history as it was.
C16_ResetFrame ==
  [][(analysisState \in {"complete", "error"} /\ analysisState' = "idle")
       => /\ questions' = <<>>
          /\ answers' = <<>>
          /\ progress'.null
          /\ error' = NullError
          /\ currentFilename' = ""
          /\ storage' = storage]_vars

\* Reset after a job that received its questions, completed and was saved:
\* memory cleared, the entry still stored.
C16_Witness ==
  /\ analysisState = "idle"
  /\ Len(jobs) = 1
  /\ jobs[1].saved = 1 /\ ~jobs[1].abandoned
  /\ jobs[1].finalQuestions # <<>>
  /\ questions = <<>> /\ currentFilename = ""
  /\ Len(getHistory(storage)) = 1
  /\ getHistory(storage)[1].questions = jobs[1].finalQuestions

\* The index of an answer event lies within the installed question list.
InRange(index) == index >= 0 /\ index < Len(questions)

\* C17 (SpecJob): an answer event whose index is outside the installed
\* question list (none installed yet included) changes neither the answers
\* in memory nor the answer map the invocation keeps for the history.
C17_OutOfRangeAnswerIgnored ==
  [][(EventStep /\ trace'.event.type = "answer"
        /\ ~InRange(trace'.event.index))
       => /\ answers' = answers
          /\ jobs'[trace'.job].finalAnswers = jobs[trace'.job].finalAnswers]_vars

\* Job j has received a questions event and its list is the installed one.
Extracted(j) ==
  jobs[j].finalQuestions # <<>> /\ questions = jobs[j].finalQuestions

\* C18 (SpecJob): an event of a job whose question list is installed leaves
\* the list as it is, and the event that installs a list leaves no question
\* answered.
C18_QuestionListFixed ==
  [][EventStep =>
       /\ Extracted(trace'.job) => questions' = questions
       /\ trace'.event.type = "questions" => answers' = <<>>]_vars

\* The counts of a progress snapshot are consistent.
Consistent(p) ==
  /\ 0 <= p.answered /\ p.answered <= p.total
  /\ p.met + p.partial + p.not_met <= p.answered

\* C19 (SpecJob): whenever a progress snapshot exists, 0 <= answered <= total
\* and met + partial + not_met <= answered, with equality while the
\* controller is Complete.
C19_SnapshotInvariant ==
  ~progress.null =>
     /\ Consistent(progress)
     /\ analysisState = "complete" =>
           progress.met + progress.partial + progress.not_met
             = progress.answered

\* An error record of job j has been processed and its stream is still read.
FailedByRecord(j) == jobs[j].pc = "stream" /\ jobs[j].result = "error"

\* C20 (SpecJob): the step that applies an error record leaves the job
\* Failed with that record's message, and no later record of that stream
\* changes the state, phase, progress, answers or message, or writes to
\* history.
C20_FailedIsTerminal ==
  [][EventStep =>
       /\ trace'.event.type = "error" =>
             (analysisState' = "error" /\ error' = <<trace'.event.message>>)
       /\ FailedByRecord(trace'.job) =>
             /\ analysisState' = analysisState
             /\ phase' = phase
             /\ progress' = progress
             /\ answers' = answers
             /\ error' = error
             /\ storage' = storage]_vars

\* The phases one of whose markers the message contains.
MatchingPhases(message) ==
  {p \in {PhaseOrder[i] : i \in 1..Len(PhaseOrder)} :
     \E m \in Markers(p) : Includes(message, m)}

LatestOf(ps) ==
  CHOOSE p \in ps : \A q \in ps : PhaseIndex(q) <= PhaseIndex(p)

\* C21 (SpecJob): the phase a status message sets is the latest, in phase
\* order, of the phases whose markers the message contains.
C21_LatestMatchWins ==
  [][(EventStep /\ trace'.event.type = "status"
        /\ MatchingPhases(trace'.event.message) # {})
       => phase' = LatestOf(MatchingPhases(trace'.event.message))]_vars

\* The later of two phases.
LaterPhase(p, q) == IF PhaseIndex(p) >= PhaseIndex(q) THEN p ELSE q

\* C22 (SpecJob): the step that applies a questions event leaves the phase
\* at the later of the previous phase and keywords.
C22_QuestionsRaisePhase ==
  [][(EventStep /\ trace'.event.type = "questions")
       => phase' = LaterPhase(phase, "keywords")]_vars

\* A deleteFromHistory call has just run (the step's post-state is primed).
DeleteStep == lastOp'.op = "delete" /\ clock' = clock

\* C23 (SpecHistory): on every stored collection, deleteFromHistory(id)
\* returns without raising and leaves the previous entries whose id is not
\* id, in their order: the whole collection when no entry has that id.
C23_RemoveOnlyThatEntry ==
  [][(DeleteStep /\ IsArrayValue(storage))
       => LET prev == getHistory(storage)
              id   == lastOp'.id
          IN  /\ ~lastOp'.threw
              /\ getHistory(storage')
                   = SelectSeq(prev, LAMBDA e : e.id # id)
              /\ (\A i \in 1..Len(prev) : prev[i].id # id)
                    => getHistory(storage') = prev]_vars

\* The messages a request that could not be established may carry: the
\* network failure, the detail of the error body, the two status-derived
\* texts, the missing body.
EstablishMessages ==
  {<<"Connection failed: ", "Failed to fetch",
     ". Please check your internet connection.">>,
   <<"Unsupported file">>,
   <<"Analysis failed: ", "500">>,
   <<"Server error: ", "500", " ", "Internal Server Error">>,
   <<"No response body from server">>}

\* C24 (SpecJob): the step on which the request of a job fails to be
\* established leaves the controller Failed with the message of the cause,
\* applies no event and writes no history; and a job that has left through
\* its catch block never changes again, so no event is ever applied to it.
C24_EstablishFailure ==
  [][\A j \in 1..Len(jobs) :
       /\ (jobs[j].pc = "fetch" /\ jobs'[j].pc = "threw")
            => /\ analysisState' = "error"
               /\ error' \in EstablishMessages
               /\ ~jobs'[j].got
               /\ jobs'[j].saved = 0
               /\ trace' = trace
               /\ storage' = storage
       /\ jobs[j].pc = "threw" => jobs'[j] = jobs[j]]_vars

\* A rejected upload: Failed with the detail of the error body, no event
\* applied, nothing stored.
C24_Witness ==
  /\ Len(jobs) = 1
  /\ jobs[1].pc = "threw" /\ ~jobs[1].got
  /\ trace.n = 0
  /\ analysisState = "error"
  /\ error = <<"Unsupported file">>
  /\ getHistory(storage) = <<>>

\* C26 (SpecJob): an answer event leaves as progress the snapshot it carries,
\* a questions event the zero counts with its total, and status and error
\* events leave the progress as it is: the snapshot is the one of the last
\* answer event, or the zero one of the questions event after it, however
\* many answers are held.
C26_ProgressSuperseded ==
  [][EventStep =>
       /\ trace'.event.type = "answer" => progress' = trace'.event.progress
       /\ trace'.event.type = "questions" =>
             progress' = Snapshot(0, trace'.event.total, 0, 0, 0)
       /\ trace'.event.type \in {"status", "error"} => progress' = progress]_vars

\* After the questions, an answer for the second question arrived first: its
\* snapshot counts 2 answered while one answer is held.
C26_Witness ==
  /\ Len(jobs) = 1
  /\ questions # <<>>
  /\ trace.event.type = "answer"
  /\ progress = trace.event.progress
  /\ Cardinality(DOMAIN answers) = 1
  /\ progress.answered = 2

\* C27 (SpecJob): no handleFileSelect invocation appends more than one
\* history entry, whatever records its stream carries.
C27_OneEntryPerJob ==
  \A j \in 1..Len(jobs) : jobs[j].saved <= 1

\* The text after the last newline of the whole response.
UnterminatedTail ==
  LET ls == Split(UTF8Decode(sent).out)
  IN  ls[Len(ls)]

\* C28 (SpecDecoder): once the read loop has ended, the text after the last
\* newline is still in the buffer and the events yielded are as many as the
\* well-formed newline-terminated lines, so a well-formed record without
\* its newline at the end of the response has produced no event.
C28_UnterminatedTailDropped ==
  dpc = "done" =>
     /\ buffer = UnterminatedTail
     /\ Len(yielded) = Len(SelectSeq(SentLines, WellFormed))
     /\ WellFormed(UnterminatedTail) =>
           \A i \in 1..Len(yielded) :
              yielded[i].type = "number" =>
                 yielded[i].value # JSONParseText(Slice6(UnterminatedTail)).value

\* A response that ends with a well-formed record lacking its newline, read
\* to the end after two other events.
C28_Witness ==
  /\ dpc = "done"
  /\ WellFormed(UnterminatedTail)
  /\ buffer = UnterminatedTail
  /\ Len(yielded) = 2

\* Every tab's saveToHistory call has returned its entry.
AllReturned == \A w \in Tabs : writers[w].pc = "done" /\ ~writers[w].threw

\* C29 (SpecTabs): once the saveToHistory calls of all the tabs have
\* returned, the stored collection holds the entry of each of them.
C29_NoLostUpdate ==
  AllReturned =>
     \A w \in Tabs :
        \E i \in 1..Len(getHistory(storage)) :
           getHistory(storage)[i].id = writers[w].newItem.id

\* C30 (Spec): while the display shows a selected history entry, no event of
\* a job that is still in flight changes the displayed questions, answers,
\* progress or completion state.
C30_SingleSource ==
  [][(EventStep /\ shown.kind = "history" /\ ~jobs[trace'.job].terminal)
       => /\ questions' = questions
          /\ answers' = answers
          /\ progress' = progress
          /\ analysisState' = analysisState]_vars

\* The complete records among the first k of the events ys.
CompletesAmong(ys, k) ==
  Len(SelectSeq(SubSeq(ys, 1, k), LAMBDA v : v.value = "{complete}"))

\* C25 (SpecPipe): after every step the events applied are the first
\* trace.n events of the well-formed lines of the response, the last applied
\* being the trace.n-th, at most one event is yielded and not yet applied,
\* and every complete record applied has had its saveToHistory call; and a
\* step that takes bytes from the reader happens only when every event of
\* the lines read before has been applied, the history write of a complete
\* record included.
C25_ArrivalOrder ==
  [][/\ trace'.n <= Len(yielded')
     /\ Len(yielded') <= trace'.n + 1
     /\ Len(yielded') <= Len(WellFormedEvents)
     /\ yielded' = SubSeq(WellFormedEvents, 1, Len(yielded'))
     /\ trace'.n >= 1 =>
          trace'.event = EventOf(WellFormedEvents[trace'.n])
     /\ clock' - 1 = CompletesAmong(yielded', trace'.n)
     /\ wire' # wire =>
          /\ batch = <<>>
          /\ trace.n = Len(yielded)
          /\ clock - 1 = CompletesAmong(yielded, Len(yielded))]_vars

\* One chunk carried two records: the first, a complete record, has been
\* applied and saved while the second line still waits in the generator.
C25_Witness ==
  /\ batch # <<>>
  /\ wire = <<>>
  /\ Len(yielded) = 1 /\ trace.n = 1
  /\ trace.event.type = "complete"
  /\ Len(getHistory(storage)) = 1

====
